---- MODULE Spec2Model ----
(***************************************************************************)
(* Filing corpus pipeline of python-edinet-sample.                         *)
(*                                                                         *)
(*   SpecCrawl / LiveCrawl  edinet_core.collect_documents_for_period_async *)
(*                          and fetch_documents_for_date                   *)
(*   SpecMatch              document_processor.                            *)
(*                          create_filtered_documents_with_pandas          *)
(*   SpecResolve            document_processor.filter_corrected_reports    *)
(*   SpecFinal              document_processor.filter_corrected_reports    *)
(*                          followed by process_final_reports              *)
(*   SpecExtract            xbrl.analyzer.extract_financial_indicators and *)
(*                          the collection of its result by                *)
(*                          xbrl.processor.process_document                *)
(*   SpecPivot              xbrl.analyzer.create_pivot_tables              *)
(*   SpecDownload           xbrl.processor.process_securities_reports_async*)
(*                          and process_document                           *)
(*   SpecRun                main.search_documents with document_processor. *)
(*                          collect_and_process_documents, and             *)
(*                          main.extract_financial_data with               *)
(*                          xbrl.processor.main_async                      *)
(***************************************************************************)
EXTENDS Integers, Sequences, FiniteSets, TLC

(***************************************************************************)
(* Bounds of the model.                                                    *)
(***************************************************************************)
\* calendar days are numbered 1..MaxDay
MaxDay == 6
\* rows of the corpus handed to the entity matcher
MaxFilings == 2
\* tracked entities handed to the entity matcher
MaxCompanies == 2
\* rows of the frame handed to the correction resolver
MaxReports == 3
\* rows of the table handed to the two resolution passes in sequence
MaxFinal == 2
\* tagged elements of a document handed to the indicator extractor
MaxElements == 2
\* indicator records handed to the aggregator
MaxRecords == 2
\* rows of the table handed to the indicator stage
MaxDownloads == 4
\* per-year batches of the filing stage (END_YEAR - START_YEAR + 1)
MaxYears == 2
\* listing requests of one per-year batch (days of the target month)
MaxRequests == 2

(***************************************************************************)
(* Program constants.                                                      *)
(***************************************************************************)
\* settings.API_MAX_CONCURRENT, bound to edinet_core.MAX_CONCURRENT_REQUESTS
MAX_CONCURRENT_REQUESTS == 5
\* the display thresholds of extract_financial_indicators
\* base_settings.XBRL_DOWNLOADER_MAX_CONCURRENT, bound to
\* visualizer.MAX_CONCURRENT_REQUESTS
XBRL_DOWNLOADER_MAX_CONCURRENT == 3
Billion == 1000000000
Million == 1000000

VARIABLES
    \* ---- collect_documents_for_period_async ----
    start_date,      \* argument
    end_date,        \* argument
    date_list,       \* the list built by the while loop
    crawl_pc,        \* "build" | "spawn" | "gather" | "returned" | "raised"
    spawned,         \* number of coroutines of `tasks` that ran their first step
    semaphore,       \* asyncio.Semaphore: [value, waiters (FIFO of days)]
    phase,           \* per day: "none" | "waiting" | "admitted" | "inflight" |
                     \*          "done" | "raised"
    issued,          \* per day: number of session.get calls made
    outcome,         \* per day: what the registry answered ("none" before)
    ret,             \* per day: the list fetch_documents_for_date returned
    all_documents,   \* the list returned to the caller
    overtaken,       \* history: a day's filings arrived while an earlier day
                     \*   that has filings was still unanswered
    \* ---- create_filtered_documents_with_pandas ----
    companies,       \* argument: the tracked entities, [name, seccode]
    corpus,          \* rows of all_documents_csv: [docID, secCode, filerName]
    company_rows,    \* per company: the rows its mask selected (line 207)
    output_csv,      \* rows written to output_csv
    match_pc,        \* "idle" | "call" | "True" (the value returned)
    \* ---- filter_corrected_reports ----
    reports,         \* argument df: rows [docID, docDescription, referenceDocID]
    has_reference,   \* whether df has the referenceDocID column
    filtered,        \* the frame returned
    resolve_pc,      \* "idle" | "call" | "returned"
    \* ---- filter_corrected_reports, then process_final_reports ----
    final_df,        \* rows of the input table: [docID, docDescription,
                     \*   referenceDocID, parentDocID, document_date]
    columns,         \* "full", or the one column the table lacks
    securities_csv,  \* rows written after the description-based pass
    final_csv,       \* rows of FINAL_SECURITIES_REPORTS_CSV, "absent" before
    final_ret,       \* "pending" | "path" | "None"
    final_pc,        \* "idle" | "filter" | "final" | "returned"
    rerun,           \* "none" | "description" | "both": what the input is
                     \*   the output of
    \* ---- extract_financial_indicators, process_document ----
    xbrl_readable,   \* whether open(xbrl_path) succeeds
    content,         \* the tagged elements of the file, in file order:
                     \*   [tag, contextRef, text]
    financial_data,  \* the dict built: [display, raw], each a function on
                     \*   the indicators that have the key
    found_any_indicator,
    extract_result,  \* "pending" | "dict" | "exception": what gather holds
    financial_data_list,  \* the list process_document returns
    extract_pc,      \* "idle" | "call" | "gathered" | "returned"
    \* ---- create_pivot_tables ----
    indicator_records,  \* argument financial_data_list: [company, year, raw]
    all_trends,      \* the list under "trends_data"
    pivot_pc,        \* "idle" | "call" | "returned" | "raised"
    \* ---- process_securities_reports_async, process_document ----
    report_table,    \* rows of the csv read: [docID, filerName]
    download_pc,     \* "idle" | "spawn" | "gather" | "returned" | "raised"
    started,         \* number of coroutines of `tasks` that ran their first step
    download_semaphore,  \* asyncio.Semaphore: [value, waiters (FIFO of rows)]
    doc_phase,       \* per row: "none" | "waiting" | "admitted" | "inside" |
                     \*          "returned" | "raised"
    doc_outcome,     \* per row: how download, extraction and scan ended
    save_dir,        \* per row: the directory the task writes under while
                     \*   it is inside the semaphore, <<>> otherwise
    all_financial_data,  \* the records collected from the tasks
    indicators_csv,  \* whether FINANCIAL_INDICATORS_CSV was written
    \* ---- main.main: search_documents, extract_financial_data ----
    entry,           \* "main" | "document_processor": the module that is run
    registry,        \* what COMPANY_INFO_JSON holds on disk
    run_pc,          \* "idle" | "search_documents" | "load_companies" |
                     \*   "crawl" | "sleep" | "collected" | "filing_returned" |
                     \*   "extract_financial_data" | "done"
    date_ranges,     \* the list of per-year ranges, as year numbers
    year_index,      \* j of the loop over date_ranges, 0 before the loop
    year_issued,     \* per year batch: listing requests sent
    year_answered,   \* per year batch: listing requests that completed
    any_documents,   \* whether all_documents is non-empty
    slept_after,     \* the year batches followed by asyncio.sleep(1)
    tables,          \* the csv tables on disk
    final_input,     \* "none" | "ok" | "unreadable" | "raises": what
                     \*   process_final_reports met
    filing_result,   \* "none" | "0" | "1": result of document_processor.main
    csv_path,        \* "none", or the table process_securities_reports_async
                     \*   was called with
    indicator_result,\* "none" | "0" | "1": result of processor.main
    run_result       \* "running" | "0" | "FileNotFoundError" |
                     \*   "RuntimeError" | "exit" (document_processor alone)

crawlvars == <<start_date, end_date, date_list, crawl_pc, spawned, semaphore,
               phase, issued, outcome, ret, all_documents, overtaken>>

matchvars == <<companies, corpus, company_rows, output_csv, match_pc>>

resolvevars == <<reports, has_reference, filtered, resolve_pc>>

finalvars == <<final_df, columns, securities_csv, final_csv, final_ret,
               final_pc, rerun>>

extractvars == <<xbrl_readable, content, financial_data, found_any_indicator,
                 extract_result, financial_data_list, extract_pc>>

pivotvars == <<indicator_records, all_trends, pivot_pc>>

downloadvars == <<report_table, download_pc, started, download_semaphore,
                  doc_phase, doc_outcome, save_dir, all_financial_data,
                  indicators_csv>>

runvars == <<entry, registry, run_pc, date_ranges, year_index,
             year_issued, year_answered, any_documents, slept_after, tables,
             final_input, filing_result, csv_path, indicator_result,
             run_result>>

stagevars == <<downloadvars, runvars>>

latervars == <<finalvars, extractvars, pivotvars, stagevars>>

vars == <<crawlvars, matchvars, resolvevars, latervars>>

FinalIdle ==
    /\ final_df = <<>>
    /\ columns = "full"
    /\ securities_csv = <<>>
    /\ final_csv = "absent"
    /\ final_ret = "pending"
    /\ final_pc = "idle"
    /\ rerun = "none"

\* the dict before any indicator is stored (identity keys only)
IdentityOnly == [display |-> <<>>, raw |-> <<>>]

ExtractIdle ==
    /\ xbrl_readable = TRUE
    /\ content = <<>>
    /\ financial_data = IdentityOnly
    /\ found_any_indicator = FALSE
    /\ extract_result = "pending"
    /\ financial_data_list = <<>>
    /\ extract_pc = "idle"

PivotIdle ==
    /\ indicator_records = <<>>
    /\ all_trends = <<>>
    /\ pivot_pc = "idle"

DownloadIdle ==
    /\ report_table = <<>>
    /\ download_pc = "idle"
    /\ started = 0
    /\ download_semaphore = [value |-> 0, waiters |-> <<>>]
    /\ doc_phase = [i \in 1..MaxDownloads |-> "none"]
    /\ doc_outcome = [i \in 1..MaxDownloads |-> "none"]
    /\ save_dir = [i \in 1..MaxDownloads |-> <<>>]
    /\ all_financial_data = <<>>
    /\ indicators_csv = FALSE

RunIdle ==
    /\ entry = "main"
    /\ registry = "ok"
    /\ run_pc = "idle"
    /\ date_ranges = <<>>
    /\ year_index = 0
    /\ year_issued = [k \in 1..MaxYears |-> 0]
    /\ year_answered = [k \in 1..MaxYears |-> 0]
    /\ any_documents = FALSE
    /\ slept_after = {}
    /\ tables = {}
    /\ final_input = "none"
    /\ filing_result = "none"
    /\ csv_path = "none"
    /\ indicator_result = "none"
    /\ run_result = "running"

StageIdle == DownloadIdle /\ RunIdle

LaterIdle == FinalIdle /\ ExtractIdle /\ PivotIdle /\ StageIdle

Days == 1..MaxDay

(***************************************************************************)
(* Sequence helpers.                                                       *)
(***************************************************************************)
Range(s) == {s[i] : i \in 1..Len(s)}

RECURSIVE FlattenReversed(_)
\* the lists joined last to first
FlattenReversed(xs) ==
    IF xs = <<>> THEN <<>> ELSE FlattenReversed(Tail(xs)) \o Head(xs)

RECURSIVE Flatten(_)
\* for x in xs: out.extend(x)
Flatten(xs) == IF xs = <<>> THEN <<>> ELSE Head(xs) \o Flatten(Tail(xs))

(***************************************************************************)
(* The listing endpoint (external collaborator).  Registry(d) is the       *)
(* `results` array the registry holds for day d: docIDs, none on every     *)
(* third day.                                                              *)
(***************************************************************************)
Registry(d) ==
    CASE d % 3 = 0 -> <<>>
      [] d % 3 = 1 -> <<10 * d + 1>>
      [] OTHER     -> <<10 * d + 1, 10 * d + 2>>

\* how one listing request can end
ResponseKinds == {"ok", "transport", "status", "malformed"}

(***************************************************************************)
(* fetch_documents_for_date, lines 54-71: the try body and its handler.    *)
(***************************************************************************)
\* lines 55-67: session.get raises on a transport error or timeout,
\* raise_for_status on a non-2xx status, response.json() on a malformed
\* payload; otherwise the results are paired with the date.
TryBody(d, kind) ==
    IF kind # "ok"
    THEN [exc |-> TRUE, val |-> <<>>]
    ELSE LET results == Registry(d)
         IN  IF results # <<>>
             THEN [exc |-> FALSE,
                   val |-> [i \in 1..Len(results) |-> <<d, results[i]>>]]
             ELSE [exc |-> FALSE, val |-> <<>>]

\* a handler that only catches transport errors (aiohttp.ClientError)
CatchesOnlyClientError(kind) == kind = "transport"

\* line 69: `except Exception` catches every failure of the try body
ExceptCatches(kind) == TRUE

\* the value returned, or the exception leaving the coroutine
FetchResult(d, kind) ==
    LET b == TryBody(d, kind)
    IN  IF b.exc
        THEN IF ExceptCatches(kind)
             THEN [raised |-> FALSE, val |-> <<>>]
             ELSE [raised |-> TRUE, val |-> <<>>]
        ELSE [raised |-> FALSE, val |-> b.val]

(***************************************************************************)
(* collect_documents_for_period_async, lines 89-94: the date list.         *)
(***************************************************************************)
RECURSIVE DateListExclusive(_, _)
\* the loop with `<` for `<=`
DateListExclusive(current_date, last) ==
    IF current_date < last
    THEN <<current_date>> \o DateListExclusive(current_date + 1, last)
    ELSE <<>>

RECURSIVE DateList(_, _)
\* while current_date <= end_date: append; current_date += 1 day
DateList(current_date, last) ==
    IF current_date <= last
    THEN <<current_date>> \o DateList(current_date + 1, last)
    ELSE <<>>

(***************************************************************************)
(* asyncio.Semaphore as used by `async with semaphore` (line 53).          *)
(***************************************************************************)
\* a release that never hands the token on and never returns it
ReleaseLeaks(sem) == sem

\* __aexit__: the token goes to the longest waiting task, or back to the pool
Release(sem) ==
    IF sem.waiters # <<>>
    THEN [sem EXCEPT !.waiters = Tail(@)]
    ELSE [sem EXCEPT !.value = @ + 1]

\* the task that left the queue when `sem` became `released`, 0 if none
Woken(sem, released) ==
    IF Len(released.waiters) < Len(sem.waiters) THEN Head(sem.waiters) ELSE 0

\* an acquire that never blocks
CanAcquireAlways(sem) == TRUE

\* __aenter__: a free token and nobody queued before
CanAcquire(sem) == sem.value > 0 /\ sem.waiters = <<>>

(***************************************************************************)
(* Actions of the crawl.                                                   *)
(***************************************************************************)
CrawlInit ==
    /\ start_date \in 1..2
    /\ end_date \in 0..MaxDay
    /\ date_list = <<>>
    /\ crawl_pc = "build"
    /\ spawned = 0
    /\ semaphore = [value |-> 0, waiters |-> <<>>]
    /\ phase = [d \in Days |-> "none"]
    /\ issued = [d \in Days |-> 0]
    /\ outcome = [d \in Days |-> "none"]
    /\ ret = [d \in Days |-> <<>>]
    /\ all_documents = <<>>
    /\ overtaken = FALSE

\* lines 89-102: build date_list, create the semaphore
BuildDateList ==
    /\ crawl_pc = "build"
    /\ date_list' = DateList(start_date, end_date)
    /\ semaphore' = [value |-> MAX_CONCURRENT_REQUESTS, waiters |-> <<>>]
    /\ crawl_pc' = "spawn"
    /\ UNCHANGED <<start_date, end_date, spawned, phase, issued, outcome, ret,
                   all_documents>>
    /\ UNCHANGED overtaken
    /\ UNCHANGED <<matchvars, resolvevars, latervars>>

\* lines 107-114 and 53-57: gather schedules the coroutines in list order;
\* the first step of each enters the semaphore and sends the request, or
\* queues behind the semaphore.
StartTask ==
    /\ crawl_pc = "spawn"
    /\ spawned < Len(date_list)
    /\ LET d == date_list[spawned + 1]
       IN  IF CanAcquire(semaphore)
           THEN /\ semaphore' = [semaphore EXCEPT !.value = @ - 1]
                /\ phase' = [phase EXCEPT ![d] = "inflight"]
                /\ issued' = [issued EXCEPT ![d] = @ + 1]
           ELSE /\ semaphore' = [semaphore EXCEPT !.waiters = Append(@, d)]
                /\ phase' = [phase EXCEPT ![d] = "waiting"]
                /\ UNCHANGED issued
    /\ spawned' = spawned + 1
    /\ UNCHANGED <<start_date, end_date, date_list, crawl_pc, outcome, ret,
                   all_documents>>
    /\ UNCHANGED overtaken
    /\ UNCHANGED <<matchvars, resolvevars, latervars>>

\* line 114: every coroutine is scheduled, the caller awaits the gather
AwaitGather ==
    /\ crawl_pc = "spawn"
    /\ spawned = Len(date_list)
    /\ crawl_pc' = "gather"
    /\ UNCHANGED <<start_date, end_date, date_list, spawned, semaphore, phase,
                   issued, outcome, ret, all_documents>>
    /\ UNCHANGED overtaken
    /\ UNCHANGED <<matchvars, resolvevars, latervars>>

\* lines 53-57: a task woken by a release resumes and sends its request
Resume(d) ==
    /\ phase[d] = "admitted"
    /\ phase' = [phase EXCEPT ![d] = "inflight"]
    /\ issued' = [issued EXCEPT ![d] = @ + 1]
    /\ UNCHANGED <<start_date, end_date, date_list, crawl_pc, spawned,
                   semaphore, outcome, ret, all_documents>>
    /\ UNCHANGED overtaken
    /\ UNCHANGED <<matchvars, resolvevars, latervars>>

\* lines 55-71: the request of day d ends with `kind`; the coroutine returns
\* (or raises) and leaves the `async with`, releasing its token.  The event
\* loop handles a response only after the first steps that gather made ready.
Complete(d, kind) ==
    /\ crawl_pc = "gather"
    /\ phase[d] = "inflight"
    /\ LET r == FetchResult(d, kind)
           released == Release(semaphore)
           w == Woken(semaphore, released)
       IN  /\ outcome' = [outcome EXCEPT ![d] = kind]
           /\ ret' = [ret EXCEPT ![d] = r.val]
           /\ semaphore' = released
           /\ phase' = [e \in Days |->
                          IF e = d THEN (IF r.raised THEN "raised" ELSE "done")
                          ELSE IF e = w THEN "admitted"
                          ELSE phase[e]]
    /\ overtaken' =
           (\/ overtaken
            \/ /\ FetchResult(d, kind).val # <<>>
               /\ \E e \in Range(date_list) :
                      /\ e < d
                      /\ Registry(e) # <<>>
                      /\ phase[e] \in {"waiting", "admitted", "inflight"})
    /\ UNCHANGED <<start_date, end_date, date_list, crawl_pc, spawned, issued,
                   all_documents>>
    /\ UNCHANGED <<matchvars, resolvevars, latervars>>

\* lines 114-120: gather delivers the results in task order (or the first
\* exception of a task); the results are flattened and returned.
GatherReturn ==
    /\ crawl_pc = "gather"
    /\ IF \E d \in Range(date_list) : phase[d] = "raised"
       THEN /\ crawl_pc' = "raised"
            /\ UNCHANGED all_documents
       ELSE /\ \A d \in Range(date_list) : phase[d] = "done"
            /\ all_documents' =
                   Flatten([i \in 1..Len(date_list) |-> ret[date_list[i]]])
            /\ crawl_pc' = "returned"
    /\ UNCHANGED <<start_date, end_date, date_list, spawned, semaphore, phase,
                   issued, outcome, ret>>
    /\ UNCHANGED overtaken
    /\ UNCHANGED <<matchvars, resolvevars, latervars>>

CrawlNext ==
    \/ BuildDateList
    \/ StartTask
    \/ AwaitGather
    \/ \E d \in Days : Resume(d)
    \/ \E d \in Days, kind \in ResponseKinds : Complete(d, kind)
    \/ GatherReturn

\* the entity matcher is not running
MatchIdle ==
    /\ companies = <<>>
    /\ corpus = <<>>
    /\ company_rows = <<>>
    /\ output_csv = <<>>
    /\ match_pc = "idle"

\* the correction resolver is not running
ResolveIdle ==
    /\ reports = <<>>
    /\ has_reference = FALSE
    /\ filtered = <<>>
    /\ resolve_pc = "idle"

InitCrawl == CrawlInit /\ MatchIdle /\ ResolveIdle /\ LaterIdle

SpecCrawl == InitCrawl /\ [][CrawlNext]_vars

\* the event loop runs every ready task, and every issued request ends
CrawlFairness ==
    /\ WF_vars(BuildDateList)
    /\ WF_vars(StartTask)
    /\ WF_vars(AwaitGather)
    /\ \A d \in Days : WF_vars(Resume(d))
    /\ \A d \in Days : WF_vars(\E kind \in ResponseKinds : Complete(d, kind))
    /\ WF_vars(GatherReturn)

LiveCrawl == SpecCrawl /\ CrawlFairness

(***************************************************************************)
(* Claims about the crawl.                                                 *)
(***************************************************************************)
\* days whose task holds a token: admitted, response not yet handled
InFlight == {d \in Days : phase[d] \in {"admitted", "inflight"}}

Failures == ResponseKinds \ {"ok"}

\* C1: in every reachable state the number of listing requests in flight
\* (token acquired, response not yet handled) is at most the concurrency
\* limit, and the tokens out plus the tokens left add up to the limit.
C1_InFlightBounded ==
    /\ Cardinality(InFlight) <= MAX_CONCURRENT_REQUESTS
    /\ crawl_pc # "build" =>
           semaphore.value + Cardinality(InFlight) = MAX_CONCURRENT_REQUESTS

\* the limit is reached while another day is queued behind the semaphore
C1_Witness ==
    /\ Cardinality(InFlight) = MAX_CONCURRENT_REQUESTS
    /\ semaphore.waiters # <<>>

Returned == Range(all_documents)

\* C3: the crawl issues exactly one request for each day of
\* [start_date, end_date] and none outside; what it returns is exactly the
\* (date, filing) records of the days whose request succeeded, so a day that
\* degrades to the empty result takes only its own records out.
C3_ResultIsUnionOfDays ==
    /\ \A d \in Days :
           issued[d] <= (IF start_date <= d /\ d <= end_date THEN 1 ELSE 0)
    /\ crawl_pc = "returned" =>
           /\ \A d \in Days :
                  issued[d] = (IF start_date <= d /\ d <= end_date THEN 1 ELSE 0)
           /\ Returned =
                  UNION {{<<d, doc>> : doc \in Range(Registry(d))} :
                            d \in {e \in start_date..end_date : outcome[e] = "ok"}}
           /\ Len(all_documents) = Cardinality(Returned)

\* a range of three days or more returned, a day that has filings failed and
\* other days' filings are in the result
C3_Witness ==
    /\ crawl_pc = "returned"
    /\ end_date - start_date >= 2
    /\ \E d \in start_date..end_date :
           outcome[d] \in Failures /\ Registry(d) # <<>>
    /\ all_documents # <<>>

\* C4: with every issued request eventually ending, the crawl eventually
\* returns; by then every request of the range, the queued ones included, was
\* admitted, sent and handled, and every token is back in the semaphore.
C4_CrawlTerminates ==
    <>(/\ crawl_pc = "returned"
       /\ \A d \in start_date..end_date : phase[d] = "done" /\ issued[d] = 1
       /\ semaphore = [value |-> MAX_CONCURRENT_REQUESTS, waiters |-> <<>>])

\* a crawl of more days than tokens returned, after successes, empty days and
\* failures, with all tokens back
C4_Witness ==
    /\ crawl_pc = "returned"
    /\ Len(date_list) > MAX_CONCURRENT_REQUESTS
    /\ semaphore = [value |-> MAX_CONCURRENT_REQUESTS, waiters |-> <<>>]
    /\ \E d \in Days : outcome[d] \in Failures
    /\ \E d \in Days : outcome[d] = "ok" /\ Registry(d) = <<>>
    /\ \E d \in Days : outcome[d] = "ok" /\ Registry(d) # <<>>

\* where a filing stands in the array the registry holds for its day
PositionIn(results, doc) ==
    CHOOSE k \in 1..Len(results) : results[k] = doc

\* C29: the order of the returned list does not depend on the order in which
\* the requests complete: the records are in ascending date order, and the
\* filings of one day are in the order the registry returned them.
C29_DateThenRegistryOrder ==
    crawl_pc = "returned" =>
        \A i, j \in 1..Len(all_documents) :
            i < j =>
                LET a == all_documents[i]
                    b == all_documents[j]
                IN  \/ a[1] < b[1]
                    \/ /\ a[1] = b[1]
                       /\ PositionIn(Registry(a[1]), a[2])
                              < PositionIn(Registry(b[1]), b[2])

\* every day of the range was answered, the filings of a later day arrived
\* before those of an earlier day, and a day with two filings is in the list
C29_Witness ==
    /\ crawl_pc = "returned"
    /\ overtaken
    /\ \A d \in start_date..end_date : outcome[d] = "ok"
    /\ \E d \in start_date..end_date : Len(ret[d]) = 2
    /\ Len(all_documents) >= 3

(***************************************************************************)
(* Entity matcher: create_filtered_documents_with_pandas.                  *)
(* Strings are sequences of one-character strings.                         *)
(***************************************************************************)
Digits == {"0", "1", "2", "3", "4", "5", "6", "7", "8", "9"}

\* `sub in s`
Contains(s, sub) ==
    \E i \in 0..(Len(s) - Len(sub)) : SubSeq(s, i + 1, i + Len(sub)) = sub

RECURSIVE LStrip0(_)
\* str.lstrip("0")
LStrip0(s) == IF s # <<>> /\ Head(s) = "0" THEN LStrip0(Tail(s)) ELSE s

(***************************************************************************)
(* pd.read_csv (line 165) infers the dtype of the secCode column from all  *)
(* its cells; line 179 turns the column into strings.                      *)
(***************************************************************************)
IsNumeric(cell) == cell # <<>> /\ \A i \in 1..Len(cell) : cell[i] \in Digits

\* an empty cell is NaN; digits only give int64, digits and NaN float64
ColumnDtype(col) ==
    IF \E i \in 1..Len(col) : col[i] # <<>> /\ ~IsNumeric(col[i]) THEN "object"
    ELSE IF \E i \in 1..Len(col) : col[i] = <<>> THEN "float64"
    ELSE "int64"

\* str(int(cell))
IntStr(cell) == IF LStrip0(cell) = <<>> THEN <<"0">> ELSE LStrip0(cell)

\* df["secCode"].fillna("").astype(str), one cell
SecCodeStr(cell, dtype) ==
    CASE cell = <<>>       -> <<>>
      [] dtype = "object"  -> cell
      [] dtype = "int64"   -> IntStr(cell)
      [] OTHER             -> IntStr(cell) \o <<".", "0">>

\* the data frame the loop works on: secCode as line 179 leaves it
DataFrame(rows) ==
    LET dtype == ColumnDtype([i \in 1..Len(rows) |-> rows[i].secCode])
    IN  [i \in 1..Len(rows) |->
            [rows[i] EXCEPT !.secCode = SecCodeStr(rows[i].secCode, dtype)]]

(***************************************************************************)
(* Series.str.contains(pat) searches a regular expression.  Over the       *)
(* alphabet of the model the only metacharacters are the parentheses: a    *)
(* balanced pattern matches as its text without them, an unbalanced one    *)
(* does not compile.                                                       *)
(***************************************************************************)
RECURSIVE ParenDepth(_, _)
\* -1 when a ")" has no "(" before it, else the number of "(" left open
ParenDepth(pat, depth) ==
    IF pat = <<>> THEN depth
    ELSE IF Head(pat) = "(" THEN ParenDepth(Tail(pat), depth + 1)
    ELSE IF Head(pat) = ")"
         THEN IF depth = 0 THEN -1 ELSE ParenDepth(Tail(pat), depth - 1)
    ELSE ParenDepth(Tail(pat), depth)

Compiles(pat) == ParenDepth(pat, 0) = 0

NotParen(c) == c \notin {"(", ")"}

\* re.search(pat, s) for a pattern that compiles
RegexSearch(pat, s) == Contains(s, SelectSeq(pat, NotParen))

(***************************************************************************)
(* Lines 184-216: one iteration of the loop over the companies.            *)
(***************************************************************************)
\* lines 197-199: secCode contains code_base or code_with_zero
CodeMask(cell, code_base) ==
    Contains(cell, code_base) \/ Contains(cell, code_base \o <<"0">>)

\* lines 185-187: `if not seccode: continue`
Skipped(company) == company.seccode = <<>>

\* lines 195-216: company_rows, the rows the mask selects, in row order;
\* a pattern that does not compile raises, is logged, and the company is
\* passed over (line 214-216).
CompanyRows(df, company) ==
    IF Skipped(company) \/ ~Compiles(company.name) THEN <<>>
    ELSE LET code_base == LStrip0(company.seccode)
             Mask(row) == \/ CodeMask(row.secCode, code_base)
                          \/ RegexSearch(company.name, row.filerName)
         IN  SelectSeq(df, Mask)

\* skipping the removal of duplicates
KeepDuplicates(rows) == rows

RECURSIVE DropDuplicates(_)
\* DataFrame.drop_duplicates(): the first of equal rows is kept
DropDuplicates(rows) ==
    IF rows = <<>> THEN <<>>
    ELSE LET rest == DropDuplicates(SubSeq(rows, 1, Len(rows) - 1))
             last == rows[Len(rows)]
         IN  IF last \in Range(rest) THEN rest ELSE Append(rest, last)

\* lines 218-224: duplicates removed; with no match the whole frame is used
FinalRows(df, matched_rows) ==
    IF Len(matched_rows) > 0 THEN DropDuplicates(matched_rows) ELSE df

(***************************************************************************)
(* Inputs of the matcher.                                                  *)
(***************************************************************************)
\* registry rows: secCode may be absent, zero padded or zero suffixed
FilingPool ==
    { [secCode |-> <<"7", "2", "0", "3", "0">>, filerName |-> <<"T", "Y", " ", "M">>],
      [secCode |-> <<"7", "2", "0", "3">>,      filerName |-> <<"T", "Y", " ", "M">>],
      [secCode |-> <<"1", "7", "2", "0">>,      filerName |-> <<"O", "T">>],
      [secCode |-> <<"1", "7", "2", "0", "3">>, filerName |-> <<"O", "T">>],
      [secCode |-> <<"0", "7", "2", "0", "3">>, filerName |-> <<"O", "T">>],
      [secCode |-> <<>>,                        filerName |-> <<"T", "Y", " ", "M">>],
      [secCode |-> <<"6", "7", "5", "8", "0">>, filerName |-> <<"S", "N", " ", "T", "Y">>],
      [secCode |-> <<"1", "3", "0", "A", "0">>, filerName |-> <<"(", "K", ")", "H", "D">>] }

\* company_info.json entries
CompanyPool ==
    { [name |-> <<"T", "Y">>,                seccode |-> <<"7", "2", "0", "3">>],
      [name |-> <<"S", "N">>,                seccode |-> <<"6", "7", "5", "8">>],
      [name |-> <<"(", "K", ")", "H", "D">>, seccode |-> <<"0", "7", "2", "6">>],
      [name |-> <<"T", "Y", " ", "M">>,      seccode |-> <<>>] }

\* the sequences of length 0..n over the set S
RECURSIVE SeqsUpTo(_, _)
SeqsUpTo(S, n) ==
    IF n = 0 THEN {<<>>}
    ELSE LET shorter == SeqsUpTo(S, n - 1)
         IN  shorter \cup {Append(q, x) : q \in shorter, x \in S}

\* the docID of a row is its position in the corpus
WithDocIDs(fs) ==
    [i \in 1..Len(fs) |->
        [docID |-> i, secCode |-> fs[i].secCode, filerName |-> fs[i].filerName]]

(***************************************************************************)
(* Actions of the matcher.                                                 *)
(***************************************************************************)
\* the crawl is not running
CrawlIdle ==
    /\ start_date = 1
    /\ end_date = 0
    /\ date_list = <<>>
    /\ crawl_pc = "idle"
    /\ spawned = 0
    /\ semaphore = [value |-> 0, waiters |-> <<>>]
    /\ phase = [d \in Days |-> "none"]
    /\ issued = [d \in Days |-> 0]
    /\ outcome = [d \in Days |-> "none"]
    /\ ret = [d \in Days |-> <<>>]
    /\ all_documents = <<>>
    /\ overtaken = FALSE

\* process_collected_documents calls the matcher with a non-empty corpus and
\* a non-empty company list
MatchInit ==
    /\ companies \in {cs \in SeqsUpTo(CompanyPool, MaxCompanies) :
                         /\ cs # <<>>
                         /\ \A i, j \in 1..Len(cs) : i # j => cs[i] # cs[j]}
    /\ corpus \in {WithDocIDs(fs) : fs \in SeqsUpTo(FilingPool, MaxFilings) \ {<<>>}}
    /\ company_rows = <<>>
    /\ output_csv = <<>>
    /\ match_pc = "call"

\* lines 163-230.  The rows of the corpus carry secCode and filerName (the
\* listing endpoint supplies both keys), so the branches for a missing
\* column (lines 171-176, 202) are not taken, and nothing raises to the
\* outer handler of lines 232-243.
create_filtered_documents_with_pandas ==
    /\ match_pc = "call"
    /\ LET df == DataFrame(corpus)
           rows == [c \in 1..Len(companies) |-> CompanyRows(df, companies[c])]
       IN  /\ company_rows' = rows
           /\ output_csv' = FinalRows(df, Flatten(rows))
    /\ match_pc' = "True"
    /\ UNCHANGED <<companies, corpus>>
    /\ UNCHANGED <<crawlvars, resolvevars, latervars>>

MatchNext == create_filtered_documents_with_pandas

InitMatch == MatchInit /\ CrawlIdle /\ ResolveIdle /\ LaterIdle

SpecMatch == InitMatch /\ [][MatchNext]_vars

(***************************************************************************)
(* Claims about the entity matcher.                                        *)
(***************************************************************************)
Matched == match_pc = "True"

Companies == 1..Len(companies)

InOutput(f) == \E i \in 1..Len(output_csv) : output_csv[i].docID = f.docID

\* rule (a) of the matching rule: the codes agree once leading zeros are
\* stripped, or the filing's code is the entity's with one more "0"
CodeRule(f, company) ==
    /\ f.secCode # <<>>
    /\ company.seccode # <<>>
    /\ \/ LStrip0(f.secCode) = LStrip0(company.seccode)
       \/ LStrip0(f.secCode) = LStrip0(company.seccode) \o <<"0">>

\* rule (b): the filer name contains the entity's name
NameRule(f, company) == Contains(f.filerName, company.name)

MatchingRule(f, company) == CodeRule(f, company) \/ NameRule(f, company)

\* the company's mask selected the filing
SelectedFor(f, c) ==
    \E i \in 1..Len(company_rows[c]) : company_rows[c][i].docID = f.docID

\* C5: a filing whose filer_name does not contain the entity's name is
\* matched to the entity only if its security_code, leading zeros stripped,
\* equals the entity's stripped code or that code followed by one "0".
C5_CodeMatchIsEquality ==
    Matched =>
        \A c \in Companies : \A f \in Range(corpus) :
            SelectedFor(f, c) /\ ~NameRule(f, companies[c])
                => CodeRule(f, companies[c])

\* C6: every filing whose security_code is a tracked entity's code c, or c
\* followed by one "0", is in the matcher output; a filing with another code
\* whose filer_name contains no tracked entity's name is not.
C6_CodeVariantsInOthersOut ==
    Matched =>
        /\ \A c \in Companies : \A f \in Range(corpus) :
               /\ companies[c].seccode # <<>>
               /\ \/ f.secCode = companies[c].seccode
                  \/ f.secCode = companies[c].seccode \o <<"0">>
               => InOutput(f)
        /\ \A f \in Range(corpus) :
               (\A c \in Companies : ~MatchingRule(f, companies[c]))
                   => ~InOutput(f)

\* C7: a filing whose filer_name contains a tracked entity's name is in the
\* matcher output, whatever its security code or the entity's.
C7_NameMatchIncluded ==
    Matched =>
        \A c \in Companies : \A f \in Range(corpus) :
            NameRule(f, companies[c]) => InOutput(f)

\* C8: the matcher output is a subset of the corpus, every filing in it
\* satisfies the matching rule of a tracked entity, and when no filing
\* matches the matcher returns successfully with zero filings.
C8_OutputIsMatchedSubset ==
    Matched =>
        /\ \A i \in 1..Len(output_csv) :
               \E f \in Range(corpus) :
                   /\ f.docID = output_csv[i].docID
                   /\ \E c \in Companies : MatchingRule(f, companies[c])
        /\ (\A f \in Range(corpus) : \A c \in Companies :
                ~MatchingRule(f, companies[c]))
               => output_csv = <<>>

\* entities with pairwise different names and codes
DistinctEntities ==
    \A c1, c2 \in Companies :
        c1 # c2 => /\ companies[c1].name # companies[c2].name
                   /\ companies[c1].seccode # companies[c2].seccode

\* C9 as stated: every filing of the output satisfies the matching rule of
\* at most one tracked entity.
C9_AtMostOneEntity ==
    Matched /\ DistinctEntities =>
        \A f \in Range(corpus) :
            InOutput(f) =>
                Cardinality({c \in Companies : MatchingRule(f, companies[c])}) <= 1

\* number of rows of the output that carry the filing
Copies(f) == Cardinality({i \in 1..Len(output_csv) : output_csv[i].docID = f.docID})

\* C9 amended: a filing is in the matcher output at most once, and exactly
\* once when the mask of one or of several tracked entities selected it.
C9_FilingOnceInOutput ==
    Matched =>
        \A f \in Range(corpus) :
            /\ Copies(f) <= 1
            /\ (\E c \in Companies : SelectedFor(f, c)) => Copies(f) = 1

\* a filing selected for two entities with different names and codes is in
\* the output once
C9_Witness ==
    /\ Matched
    /\ DistinctEntities
    /\ \E f \in Range(corpus) : \E c1, c2 \in Companies :
           /\ c1 # c2
           /\ SelectedFor(f, c1)
           /\ SelectedFor(f, c2)
           /\ Copies(f) = 1

(***************************************************************************)
(* Correction resolver, description-based pass: filter_corrected_reports.  *)
(***************************************************************************)
\* a missing referenceDocID cell; docIDs are 1, 2, ...
NaN == 0

\* the marker of line 128, two characters (U+8A02 U+6B63, "teisei")
CorrectionMarker == <<"tei", "sei">>

\* docDescription values: an annual report, its correction, and a text that
\* holds only the first character of the marker
DescriptionPool ==
    { <<"Y", "H">>, <<"tei", "sei", "Y", "H">>, <<"tei", "Y", "H">> }

\* referenceDocID of every row, whatever its description
ReferencesOfAllRows(df) ==
    {df[i].referenceDocID : i \in 1..Len(df)} \ {NaN}

\* lines 127-131: the referenceDocID values, NaN dropped, of the rows whose
\* description contains the marker
CorrectedDocIds(df) ==
    {df[i].referenceDocID :
        i \in {j \in 1..Len(df) : Contains(df[j].docDescription, CorrectionMarker)}}
    \ {NaN}

\* line 134: df[~df["docID"].isin(ids)]
DropReferenced(df, ids) ==
    LET Keep(row) == row.docID \notin ids
    IN  SelectSeq(df, Keep)

\* a frame without the referenceDocID column gives an empty frame
FilterOrEmpty(df, has_column) ==
    IF ~has_column THEN <<>>
    ELSE DropReferenced(df, CorrectedDocIds(df))

\* lines 116-149; docDescription is a column of strings here (the caller
\* fills its NaN cells, line 271), so the handler of lines 146-149 is idle
FilterCorrectedReports(df, has_column) ==
    IF ~has_column THEN df
    ELSE DropReferenced(df, CorrectedDocIds(df))

(***************************************************************************)
(* Actions of the resolver.                                                *)
(***************************************************************************)
ReportRows(n, has_column) ==
    [1..n -> [docDescription : DescriptionPool,
              referenceDocID : IF has_column THEN {NaN} \cup (1..MaxReports)
                               ELSE {NaN}]]

\* filings with distinct identifiers; without the column no row has a
\* reference
ResolveInit ==
    /\ has_reference \in BOOLEAN
    /\ \E n \in 1..MaxReports : \E r \in ReportRows(n, has_reference) :
           reports = [i \in 1..n |->
                         [docID |-> i,
                          docDescription |-> r[i].docDescription,
                          referenceDocID |-> r[i].referenceDocID]]
    /\ filtered = <<>>
    /\ resolve_pc = "call"

filter_corrected_reports ==
    /\ resolve_pc = "call"
    /\ filtered' = FilterCorrectedReports(reports, has_reference)
    /\ resolve_pc' = "returned"
    /\ UNCHANGED <<reports, has_reference>>
    /\ UNCHANGED <<crawlvars, matchvars, latervars>>

ResolveNext == filter_corrected_reports

InitResolve == ResolveInit /\ CrawlIdle /\ MatchIdle /\ LaterIdle

SpecResolve == InitResolve /\ [][ResolveNext]_vars

(***************************************************************************)
(* Claims about the description-based pass.                                *)
(***************************************************************************)
IsCorrection(row) == Contains(row.docDescription, CorrectionMarker)

\* the corrections of the input that reference the filing
CorrectionsOf(f) ==
    {i \in 1..Len(reports) :
        IsCorrection(reports[i]) /\ reports[i].referenceDocID = f.docID}

\* C10: the pass returns exactly the filings whose identifier is not the
\* reference_id of a filing whose description contains the marker: a subset
\* of the input in input order, each filing at most once however many
\* corrections reference it; for A (id 1) and B (marker, reference_id 1) the
\* result is B alone.
C10_DropsReferencedOriginals ==
    resolve_pc = "returned" =>
        /\ \A f \in Range(reports) :
               f \in Range(filtered) <=> CorrectionsOf(f) = {}
        /\ Range(filtered) \subseteq Range(reports)
        /\ \A i, j \in 1..Len(filtered) :
               i < j => filtered[i].docID < filtered[j].docID
        /\ (/\ Len(reports) = 2
            /\ ~IsCorrection(reports[1])
            /\ IsCorrection(reports[2])
            /\ reports[2].referenceDocID = 1
            /\ reports[1].referenceDocID = NaN)
               => filtered = <<reports[2]>>

\* a filing referenced by two corrections was removed, and only it
C10_Witness ==
    /\ resolve_pc = "returned"
    /\ \E f \in Range(reports) :
           /\ Cardinality(CorrectionsOf(f)) >= 2
           /\ f \notin Range(filtered)
           /\ Len(filtered) = Len(reports) - 1

\* C13: when the frame has no referenceDocID column, or the cell is empty on
\* every filing whose description contains the marker, the description-based
\* pass returns its input unchanged (and returns: nothing is raised).
C13_NoReferenceNoRemoval ==
    (/\ resolve_pc = "returned"
     /\ \/ ~has_reference
        \/ \A i \in 1..Len(reports) :
               IsCorrection(reports[i]) => reports[i].referenceDocID = NaN)
        => filtered = reports

\* the column is there, a correction has an empty reference, a filing that is
\* no correction references another one, and the frame came back as it was
C13_Witness ==
    /\ resolve_pc = "returned"
    /\ has_reference
    /\ \E i \in 1..Len(reports) :
           IsCorrection(reports[i]) /\ reports[i].referenceDocID = NaN
    /\ \E i, j \in 1..Len(reports) :
           /\ i # j
           /\ ~IsCorrection(reports[i])
           /\ reports[i].referenceDocID = reports[j].docID
    /\ filtered = reports

(***************************************************************************)
(* Correction resolver, both passes in sequence: filter_corrected_reports  *)
(* (called at line 284, its result written at line 287) and then           *)
(* process_final_reports on the table read back from that file.            *)
(***************************************************************************)
\* docDescription cells of the table: an empty cell (NaN once read back), an
\* annual report, a correction
FinalDescriptions == { <<>>, <<"Y", "H">>, <<"tei", "sei", "Y", "H">> }

\* the crawl dates found in the document_date column
DocumentDates == {1, 2}

\* what the table may lack
ColumnSets == {"full", "no_reference", "no_parent", "no_description"}

\* parentDocID of every row, whatever its description
ParentsOfAllRows(df) ==
    {df[i].parentDocID : i \in 1..Len(df)} \ {NaN}

\* lines 322-326: the parentDocID values, NaN dropped, of the rows whose
\* description contains the marker (na=False: an empty cell does not)
ReferenceIds(df) ==
    {df[i].parentDocID :
        i \in {j \in 1..Len(df) : Contains(df[j].docDescription, CorrectionMarker)}}
    \ {NaN}

\* line 318: read_csv infers float64 for a column whose cells are all empty
\* and object otherwise (a table without rows has object columns)
DescriptionDtype(df) ==
    IF Len(df) > 0 /\ \A i \in 1..Len(df) : df[i].docDescription = <<>>
    THEN "float64" ELSE "object"

\* lines 322-326 raise: KeyError for a missing column, AttributeError for
\* .str on a float64 column
FinalRaises(df, cols) ==
    \/ cols = "no_description"
    \/ DescriptionDtype(df) = "float64"
    \/ cols = "no_parent"

\* the table written as it was read
UnfilteredFinalDf(df) == df

\* line 329
FilteredFinalDf(df) == DropReferenced(df, ReferenceIds(df))

\* lines 116-149 for a table with the given columns: without referenceDocID
\* the frame is returned at line 123, without docDescription line 128 raises
\* KeyError and the handler returns the frame at line 149
DescriptionPass(df, cols) ==
    IF cols = "no_description" THEN df
    ELSE FilterCorrectedReports(df, cols # "no_reference")

(***************************************************************************)
(* Actions of the two passes.                                              *)
(***************************************************************************)
\* cells of n rows; a column the table lacks has no value in any row
FinalCells(n, cols) ==
    [1..n -> [docDescription : IF cols = "no_description" THEN {<<>>}
                               ELSE FinalDescriptions,
              referenceDocID : IF cols = "no_reference" THEN {NaN}
                               ELSE {NaN} \cup (1..n),
              parentDocID : IF cols = "no_parent" THEN {NaN}
                            ELSE {NaN} \cup (1..n),
              document_date : DocumentDates]]

\* filings with distinct identifiers, in any order of dates
FinalInit ==
    /\ columns \in ColumnSets
    /\ \E n \in 1..MaxFinal : \E r \in FinalCells(n, columns) :
           final_df = [i \in 1..n |->
                          [docID |-> i,
                           docDescription |-> r[i].docDescription,
                           referenceDocID |-> r[i].referenceDocID,
                           parentDocID |-> r[i].parentDocID,
                           document_date |-> r[i].document_date]]
    /\ securities_csv = <<>>
    /\ final_csv = "absent"
    /\ final_ret = "pending"
    /\ final_pc = "filter"
    /\ rerun = "none"

\* lines 284-287: the description-based pass and the write of its result
WriteSecuritiesReports ==
    /\ final_pc = "filter"
    /\ securities_csv' = DescriptionPass(final_df, columns)
    /\ final_pc' = "final"
    /\ UNCHANGED <<final_df, columns, final_csv, final_ret, rerun>>
    /\ UNCHANGED <<crawlvars, matchvars, resolvevars, extractvars, pivotvars,
                   stagevars>>

\* lines 305-353: the parent-based pass on the table read back; the file is
\* written at line 342 only, the handler of lines 348-353 returns None
process_final_reports ==
    /\ final_pc = "final"
    /\ rerun # "description"
    /\ IF FinalRaises(securities_csv, columns)
       THEN /\ final_ret' = "None"
            /\ UNCHANGED final_csv
       ELSE /\ final_csv' = FilteredFinalDf(securities_csv)
            /\ final_ret' = "path"
    /\ final_pc' = "returned"
    /\ UNCHANGED <<final_df, columns, securities_csv, rerun>>
    /\ UNCHANGED <<crawlvars, matchvars, resolvevars, extractvars, pivotvars,
                   stagevars>>

\* the description-based pass is given its own output
RerunDescriptionPass ==
    /\ final_pc = "final"
    /\ rerun = "none"
    /\ final_df' = securities_csv
    /\ rerun' = "description"
    /\ final_pc' = "filter"
    /\ UNCHANGED <<columns, securities_csv, final_csv, final_ret>>
    /\ UNCHANGED <<crawlvars, matchvars, resolvevars, extractvars, pivotvars,
                   stagevars>>

\* the two passes are given the table process_final_reports wrote
RerunBothPasses ==
    /\ final_pc = "returned"
    /\ final_ret = "path"
    /\ rerun = "none"
    /\ final_df' = final_csv
    /\ rerun' = "both"
    /\ final_ret' = "pending"
    /\ final_pc' = "filter"
    /\ UNCHANGED <<columns, securities_csv, final_csv>>
    /\ UNCHANGED <<crawlvars, matchvars, resolvevars, extractvars, pivotvars,
                   stagevars>>

FinalNext ==
    \/ WriteSecuritiesReports
    \/ process_final_reports
    \/ RerunDescriptionPass
    \/ RerunBothPasses

InitFinal ==
    /\ FinalInit
    /\ CrawlIdle /\ MatchIdle /\ ResolveIdle /\ ExtractIdle /\ PivotIdle
    /\ StageIdle

SpecFinal == InitFinal /\ [][FinalNext]_vars

(***************************************************************************)
(* Claims about the two passes.                                            *)
(***************************************************************************)
\* C11: a resolution pass applied to its own output returns that output
\* unchanged, for the description-based pass alone and for the
\* description-based pass followed by the parent-based pass, chains of
\* corrections and self-referencing corrections included.
C11_ResolutionIdempotent ==
    /\ (rerun = "description" /\ final_pc = "final")
           => securities_csv = final_df
    /\ (rerun = "both" /\ final_pc = "returned")
           => /\ final_ret = "path"
              /\ securities_csv = final_df
              /\ final_csv = final_df


\* rows of the input the description-based pass did not return
RemovedByDescriptionPass ==
    IF final_pc \in {"final", "returned"}
    THEN Range(final_df) \ Range(securities_csv) ELSE {}

\* rows the parent-based pass read and did not write
RemovedByParentPass ==
    IF final_pc = "returned" /\ final_ret = "path"
    THEN Range(securities_csv) \ Range(final_csv) ELSE {}

\* a filing of the set dated strictly later references f
LaterReference(f, set) ==
    \E g \in set :
        /\ g.document_date > f.document_date
        /\ (g.referenceDocID = f.docID \/ g.parentDocID = f.docID)

\* C12: the resolver removes a filing F only if the set contains a filing
\* with a strictly later submission date that references F through
\* reference_id or parent_id; a filing referenced only by corrections of the
\* same day or earlier is never removed.
C12_OnlyLaterFilingRemoves ==
    /\ \A f \in RemovedByDescriptionPass : LaterReference(f, Range(final_df))
    /\ \A f \in RemovedByParentPass : LaterReference(f, Range(securities_csv))

\* C12 amended: each pass removes a filing exactly when the set it is given
\* holds a filing whose description contains the marker and whose
\* reference_id (description-based pass) or parent_id (parent-based pass) is
\* the filing's identifier, whatever the dates of the two.
C12_MarkedReferenceRemoves ==
    /\ final_pc \in {"final", "returned"} =>
           \A f \in Range(final_df) :
               f \in RemovedByDescriptionPass <=>
                   \E g \in Range(final_df) :
                       IsCorrection(g) /\ g.referenceDocID = f.docID
    /\ (final_pc = "returned" /\ final_ret = "path") =>
           \A f \in Range(securities_csv) :
               f \in RemovedByParentPass <=>
                   \E g \in Range(securities_csv) :
                       IsCorrection(g) /\ g.parentDocID = f.docID

\* each pass removed a filing that no strictly later filing references
C12_Witness ==
    /\ \E f \in RemovedByDescriptionPass :
           ~LaterReference(f, Range(final_df))
    /\ \E f \in RemovedByParentPass :
           ~LaterReference(f, Range(securities_csv))


\* C14: when the table process_final_reports reads has no parentDocID column
\* or no docDescription column, the pass is a pass-through: the canonical
\* table is written, equals the table read, and the stage does not abort.
C14_MissingColumnPassThrough ==
    (final_pc = "returned" /\ columns \in {"no_parent", "no_description"})
        => /\ final_ret = "path"
           /\ final_csv = securities_csv

\* C30: after the description-based pass followed by the parent-based pass,
\* the canonical table holds no filing whose identifier is the reference_id
\* or the parent_id of a correction-marked filing that is itself in the
\* canonical table.
C30_NoSupersededInCanonical ==
    (final_pc = "returned" /\ final_ret = "path") =>
        \A f \in Range(final_csv) : \A g \in Range(final_csv) :
            IsCorrection(g) =>
                /\ g.referenceDocID # f.docID
                /\ g.parentDocID # f.docID

\* a filing is in the canonical table although a correction names it as its
\* parent: that correction was removed by the description-based pass
C30_Witness ==
    /\ final_pc = "returned"
    /\ final_ret = "path"
    /\ rerun = "none"
    /\ \E f \in Range(final_csv) : \E g \in RemovedByDescriptionPass :
           /\ IsCorrection(g)
           /\ g.parentDocID = f.docID
           /\ g.docID # f.docID


(***************************************************************************)
(* Indicator extractor: extract_financial_indicators.  A document is the   *)
(* sequence of its tagged elements <ns:tag contextRef="..">text</ns:tag>;  *)
(* both patterns anchor the local name in the opening and in the closing   *)
(* tag, so an element matches an indicator when its local name is the tag. *)
(***************************************************************************)
\* lines 68-76, in loop order
indicators ==
    << "NetSales", "GrossProfit", "OperatingIncome", "OrdinaryIncome",
       "ProfitLoss", "TotalAssets", "NetAssets" >>

\* local names found in the documents: two indicators and an element that is
\* none
ElementTags == {"NetSales", "OperatingIncome", "CashAndDeposits"}

ContextRefs == {"CurrentYearDuration", "Prior1YearDuration"}

\* element texts: integers on both sides of the two thresholds, a negative
\* one beyond the first threshold, a text int() rejects, and an empty element
ElementTexts ==
    { <<"1", "0", "0">>, <<"5", "0", "0">>, <<"1", ",", "5">>, <<>>,
      <<"-", "2", "0", "0", "0", "0", "0", "0">>,
      <<"9", "9", "9", "9", "9", "9">>,
      <<"1", "0", "0", "0", "0", "0", "0">>,
      <<"9", "9", "9", "9", "9", "9", "9", "9", "9">>,
      <<"1", "0", "0", "0", "0", "0", "0", "0", "0", "0">> }

Elements == [tag : ElementTags, contextRef : ContextRefs, text : ElementTexts]

\* int(m) succeeds: an optional sign and at least one digit
IsIntLiteral(m) ==
    LET body == IF m # <<>> /\ Head(m) \in {"-", "+"} THEN Tail(m) ELSE m
    IN  IsNumeric(body)

DigitValue(c) ==
    CHOOSE n \in 0..9 :
        <<"0", "1", "2", "3", "4", "5", "6", "7", "8", "9">>[n + 1] = c

RECURSIVE DigitsValue(_)
DigitsValue(ds) ==
    IF ds = <<>> THEN 0
    ELSE 10 * DigitsValue(SubSeq(ds, 1, Len(ds) - 1)) + DigitValue(ds[Len(ds)])

\* int(m) for a text int() accepts
IntValue(m) ==
    CASE Head(m) = "-" -> 0 - DigitsValue(Tail(m))
      [] Head(m) = "+" -> DigitsValue(Tail(m))
      [] OTHER         -> DigitsValue(m)

\* the group ([^<]+) of the elements of the tag, in file order; an empty
\* element has no match
Texts(doc, tag, contexts) ==
    LET Hit(e) == e.tag = tag /\ e.contextRef \in contexts /\ e.text # <<>>
        hits == SelectSeq(doc, Hit)
    IN  [i \in 1..Len(hits) |-> hits[i].text]

\* the matches of the second pattern, whatever the first one found
MatchesAnyContext(doc, tag) == Texts(doc, tag, ContextRefs)

\* lines 83-91
Matches(doc, tag) ==
    IF Texts(doc, tag, {"CurrentYearDuration"}) # <<>>
    THEN Texts(doc, tag, {"CurrentYearDuration"})
    ELSE Texts(doc, tag, ContextRefs)

\* lines 95-100
Values(doc, tag) ==
    {IntValue(m) : m \in {x \in Range(Matches(doc, tag)) : IsIntLiteral(x)}}

\* min(values)
Smallest(values) == CHOOSE v \in values : \A w \in values : v <= w

\* line 104: max(values)
Largest(values) == CHOOSE v \in values : \A w \in values : v >= w


\* f"{value / unit:.2f}" as a number of hundredths: the quotient rounded to
\* two decimals (no text of ElementTexts falls on a half)
Hundredths(value, unit) == (value + unit \div 200) \div (unit \div 100)

\* the unit chosen by the size of the number, not by its value
DisplayByMagnitude(value) ==
    LET size == IF value < 0 THEN 0 - value ELSE value
    IN  IF size >= Billion
        THEN [unit |-> "billion", number |-> Hundredths(value, Billion)]
        ELSE IF size >= Million
        THEN [unit |-> "million", number |-> Hundredths(value, Million)]
        ELSE [unit |-> "yen", number |-> value]

\* lines 106-111: number is in hundredths of the unit, in yen for f"{value:,}"
Display(value) ==
    IF value >= Billion
    THEN [unit |-> "billion", number |-> Hundredths(value, Billion)]
    ELSE IF value >= Million
    THEN [unit |-> "million", number |-> Hundredths(value, Million)]
    ELSE [unit |-> "yen", number |-> value]

\* the indicators the loop of lines 81-115 stores a value for
Found(doc) ==
    {indicators[k] : k \in {j \in 1..Len(indicators) : Values(doc, indicators[j]) # {}}}

\* lines 60-115: the dict returned for a readable file
FinancialData(doc) ==
    [display |-> [t \in Found(doc) |-> Display(Largest(Values(doc, t)))],
     raw |-> [t \in Found(doc) |-> Largest(Values(doc, t))]]

(***************************************************************************)
(* Actions of the extractor.                                               *)
(***************************************************************************)
\* a file that cannot be opened has no content to speak of
ExtractInit ==
    /\ xbrl_readable \in BOOLEAN
    /\ \E n \in 0..(IF xbrl_readable THEN MaxElements ELSE 0) :
           \E doc \in [1..n -> Elements] : content = doc
    /\ financial_data = IdentityOnly
    /\ found_any_indicator = FALSE
    /\ extract_result = "pending"
    /\ financial_data_list = <<>>
    /\ extract_pc = "call"

\* lines 23-120, run by gather(return_exceptions=True) at processor.py line
\* 88: open() at line 37 is not guarded, its OSError is what gather keeps
extract_financial_indicators ==
    /\ extract_pc = "call"
    /\ IF xbrl_readable
       THEN /\ financial_data' = FinancialData(content)
            /\ found_any_indicator' = (Found(content) # {})
            /\ extract_result' = "dict"
       ELSE /\ extract_result' = "exception"
            /\ UNCHANGED <<financial_data, found_any_indicator>>
    /\ extract_pc' = "gathered"
    /\ UNCHANGED <<xbrl_readable, content, financial_data_list>>
    /\ UNCHANGED <<crawlvars, matchvars, resolvevars, finalvars, pivotvars,
                   stagevars>>

\* processor.py lines 90-115: an exception is logged and skipped, a dict
\* (never empty: it has the identity keys) is appended
process_document ==
    /\ extract_pc = "gathered"
    /\ financial_data_list' =
           IF extract_result = "exception" THEN <<>> ELSE <<financial_data>>
    /\ extract_pc' = "returned"
    /\ UNCHANGED <<xbrl_readable, content, financial_data, found_any_indicator,
                   extract_result>>
    /\ UNCHANGED <<crawlvars, matchvars, resolvevars, finalvars, pivotvars,
                   stagevars>>

ExtractNext == extract_financial_indicators \/ process_document

InitExtract ==
    /\ ExtractInit
    /\ CrawlIdle /\ MatchIdle /\ ResolveIdle /\ FinalIdle /\ PivotIdle
    /\ StageIdle

SpecExtract == InitExtract /\ [][ExtractNext]_vars


(***************************************************************************)
(* Claims about the extractor.                                             *)
(***************************************************************************)
Extracted == extract_pc \in {"gathered", "returned"} /\ extract_result = "dict"

\* positions of the elements of the tag that have a text, in the contexts
Occurrences(tag, contexts) ==
    {i \in 1..Len(content) :
        /\ content[i].tag = tag
        /\ content[i].contextRef \in contexts
        /\ content[i].text # <<>>}

\* the occurrences the value is taken from
Considered(tag) ==
    IF Occurrences(tag, {"CurrentYearDuration"}) # {}
    THEN Occurrences(tag, {"CurrentYearDuration"})
    ELSE Occurrences(tag, ContextRefs)

Parseable(occurrences) ==
    {i \in occurrences : IsIntLiteral(content[i].text)}

\* v is the largest integer among the texts at the positions
IsMaxOf(v, positions) ==
    /\ \E i \in positions : IntValue(content[i].text) = v
    /\ \A i \in positions : IntValue(content[i].text) <= v

IndicatorTags == Range(indicators)

\* C15: for each of the seven indicators, when a considered occurrence
\* parses as an integer the reported value is the maximum of the parseable
\* ones (100 and 500 give 500); an occurrence that does not parse is skipped
\* and the others are still used.
C15_MaxOfParseable ==
    Extracted =>
        \A t \in IndicatorTags :
            Parseable(Considered(t)) # {} =>
                /\ t \in DOMAIN financial_data.raw
                /\ IsMaxOf(financial_data.raw[t], Parseable(Considered(t)))

\* two occurrences 100 and 500 of one indicator gave 500
C15_Witness ==
    /\ Extracted
    /\ \E t \in IndicatorTags :
           /\ {content[i].text : i \in Considered(t)}
                  = { <<"1", "0", "0">>, <<"5", "0", "0">> }
           /\ financial_data.raw[t] = 500

C17_RecordAlwaysEmitted ==
    /\ extract_pc \in {"gathered", "returned"} => extract_result = "dict"
    /\ extract_pc = "returned" =>
           /\ Len(financial_data_list) = 1
           /\ (\A t \in IndicatorTags : Occurrences(t, ContextRefs) = {})
                  => financial_data_list[1] = IdentityOnly

\* C18: the display string of an indicator is present exactly when its raw
\* integer is, the raw integer is the selected maximum, and the unit is
\* billions from 1,000,000,000 on, millions from 1,000,000 up to that, and
\* yen below, every negative value included.
C18_DisplayFollowsRaw ==
    Extracted =>
        /\ DOMAIN financial_data.display = DOMAIN financial_data.raw
        /\ \A t \in DOMAIN financial_data.raw :
               LET v == financial_data.raw[t]
               IN  /\ IsMaxOf(v, Parseable(Considered(t)))
                   /\ financial_data.display[t].unit =
                          CASE v >= 1000000000 -> "billion"
                            [] v >= 1000000 /\ v < 1000000000 -> "million"
                            [] OTHER -> "yen"

\* one indicator at the first threshold shown in billions, another one,
\* negative and beyond a million in size, shown in yen
C18_Witness ==
    /\ Extracted
    /\ \E t, u \in DOMAIN financial_data.raw :
           /\ financial_data.raw[t] = 1000000000
           /\ financial_data.display[t] = [unit |-> "billion", number |-> 100]
           /\ financial_data.raw[u] = 0 - 2000000
           /\ financial_data.display[u].unit = "yen"


(***************************************************************************)
(* Aggregator: create_pivot_tables.  The keys NetSales .. ProfitLoss of a  *)
(* record's raw stand for its four "<indicator>_raw" keys of line 220.     *)
(***************************************************************************)
\* line 220
PivotValues == {"NetSales", "OperatingIncome", "OrdinaryIncome", "ProfitLoss"}

CompanyNames == {"TY", "SN"}

\* document_date values, <<year, month>>
RecordDates == { <<2023, 6>>, <<2024, 6>> }

\* line 204: pd.to_datetime(..).dt.year
Year(document_date) == document_date[1]

\* a float cell of the result: yen / 1000000, or NaN
Scaled(yen) == [nan |-> FALSE, yen |-> yen]

NaNCell == [nan |-> TRUE, yen |-> 0]

\* line 200: the columns of the frame are the keys found in any record
Columns(recs) == UNION {DOMAIN recs[i].raw : i \in 1..Len(recs)}

RECURSIVE Unique(_)
\* line 210: Series.unique(), in order of first appearance
Unique(xs) ==
    IF xs = <<>> THEN <<>>
    ELSE LET rest == Unique(SubSeq(xs, 1, Len(xs) - 1))
             last == xs[Len(xs)]
         IN  IF last \in Range(rest) THEN rest ELSE Append(rest, last)

RECURSIVE Ascending(_)
\* the index of the pivot: the group keys in ascending order
Ascending(set) ==
    IF set = {} THEN <<>>
    ELSE LET least == CHOOSE x \in set : \A y \in set : x <= y
         IN  <<least>> \o Ascending(set \ {least})

\* the values an aggregation by "first" would see: only the first row of the
\* company (and year) counts
CarriedByFirst(recs, company, years, column) ==
    LET rows == {j \in 1..Len(recs) :
                   /\ recs[j].company = company
                   /\ Year(recs[j].document_date) \in years}
    IN  IF rows = {} THEN {}
        ELSE LET first == CHOOSE j \in rows : \A k \in rows : j <= k
             IN  IF column \in DOMAIN recs[first].raw
                 THEN {recs[first].raw[column]} ELSE {}

\* the values of a column in the rows of a company (and of a year), NaN
\* cells left out
Carried(recs, company, years, column) ==
    {recs[i].raw[column] :
        i \in {j \in 1..Len(recs) :
                 /\ recs[j].company = company
                 /\ Year(recs[j].document_date) \in years
                 /\ column \in DOMAIN recs[j].raw}}

AllYears == {Year(d) : d \in RecordDates}

\* lines 216-222: pivot_table raises KeyError for a label of `values` that is
\* not a column of the frame
PivotRaises(recs) ==
    /\ "NetSales" \in Columns(recs)
    /\ ~(PivotValues \subseteq Columns(recs))

\* pivot_table(dropna=True) drops the index rows whose cells are all NaN
PivotIndex(recs, company) ==
    Ascending({y \in AllYears :
                 \E column \in PivotValues :
                     Carried(recs, company, {y}, column) # {}})

\* lines 234-237: row.get(column, 0) / 1000000; pivot_table drops a column
\* whose cells are all NaN, and row.get then gives 0
Cell(recs, company, year, column) ==
    IF Carried(recs, company, AllYears, column) = {} THEN Scaled(0)
    ELSE IF Carried(recs, company, {year}, column) = {} THEN NaNCell
    ELSE Scaled(Largest(Carried(recs, company, {year}, column)))

\* lines 230-239 for one company
YearData(recs, company) ==
    LET index == PivotIndex(recs, company)
    IN  [k \in 1..Len(index) |->
            [company |-> company,
             year |-> index[k],
             millions |-> [column \in PivotValues |->
                              Cell(recs, company, index[k], column)]]]

\* lines 210-239 when no pivot raises
AllTrends(recs) ==
    IF "NetSales" \notin Columns(recs) THEN <<>>
    ELSE LET names == Unique([i \in 1..Len(recs) |-> recs[i].company])
         IN  Flatten([k \in 1..Len(names) |-> YearData(recs, names[k])])


(***************************************************************************)
(* Actions of the aggregator.                                              *)
(***************************************************************************)
\* the yen amounts a record may carry under a key
RawValues(column) == IF column = "NetSales" THEN {100, 500} ELSE {300}

\* the raw keys of a record: any of the four, each with one of its amounts
RawPool ==
    UNION {{f \in [keys -> {100, 300, 500}] :
               \A column \in keys : f[column] \in RawValues(column)} :
           keys \in SUBSET PivotValues}

IndicatorRecords ==
    [company : CompanyNames, document_date : RecordDates, raw : RawPool]

\* processor.py line 180 calls the aggregator with at least one record
PivotInit ==
    /\ \E n \in 1..MaxRecords :
           \E recs \in [1..n -> IndicatorRecords] : indicator_records = recs
    /\ all_trends = <<>>
    /\ pivot_pc = "call"

\* lines 200-257; the KeyError of pivot_table is not caught
create_pivot_tables ==
    /\ pivot_pc = "call"
    /\ IF PivotRaises(indicator_records)
       THEN /\ pivot_pc' = "raised"
            /\ UNCHANGED all_trends
       ELSE /\ all_trends' = AllTrends(indicator_records)
            /\ pivot_pc' = "returned"
    /\ UNCHANGED indicator_records
    /\ UNCHANGED <<crawlvars, matchvars, resolvevars, finalvars, extractvars,
                   stagevars>>

PivotNext == create_pivot_tables

InitPivot ==
    /\ PivotInit
    /\ CrawlIdle /\ MatchIdle /\ ResolveIdle /\ FinalIdle /\ ExtractIdle
    /\ StageIdle

SpecPivot == InitPivot /\ [][PivotNext]_vars

(***************************************************************************)
(* Claims about the aggregator.                                            *)
(***************************************************************************)
\* the (entity, year) groups present in the records
Groups ==
    {<<indicator_records[i].company, Year(indicator_records[i].document_date)>> :
        i \in 1..Len(indicator_records)}

\* the records of a group that carry the indicator
Carriers(g, column) ==
    {i \in 1..Len(indicator_records) :
        /\ indicator_records[i].company = g[1]
        /\ Year(indicator_records[i].document_date) = g[2]
        /\ column \in DOMAIN indicator_records[i].raw}

TrendsOf(g) ==
    {k \in 1..Len(all_trends) :
        all_trends[k].company = g[1] /\ all_trends[k].year = g[2]}

\* C19: for every list of records the aggregator produces exactly one
\* TrendRecord per (entity, year) group present in the records, and each of
\* its four values is the maximum of the indicator over the records of the
\* group that carry it.
C19_OneTrendPerGroup ==
    /\ pivot_pc # "raised"
    /\ pivot_pc = "returned" =>
           /\ \A k \in 1..Len(all_trends) :
                  <<all_trends[k].company, all_trends[k].year>> \in Groups
           /\ \A g \in Groups :
                  /\ Cardinality(TrendsOf(g)) = 1
                  /\ \A k \in TrendsOf(g) : \A column \in PivotValues :
                         Carriers(g, column) # {} =>
                             /\ ~all_trends[k].millions[column].nan
                             /\ \E i \in Carriers(g, column) :
                                    all_trends[k].millions[column].yen
                                        = indicator_records[i].raw[column]
                             /\ \A i \in Carriers(g, column) :
                                    all_trends[k].millions[column].yen
                                        >= indicator_records[i].raw[column]

\* C20: a group whose records carry none of the four indicators is still
\* emitted, and the aggregation does not fail when an indicator is missing
\* from every record of the run.
C20_EmptyGroupEmitted ==
    /\ pivot_pc # "raised"
    /\ pivot_pc = "returned" =>
           \A g \in Groups :
               (\A column \in PivotValues : Carriers(g, column) = {})
                   => TrendsOf(g) # {}

\* the exchanges of two neighbouring positions of a list of n records; every
\* permutation is a product of such exchanges, and every list is checked
Orders(n) ==
    {[k \in 1..n |-> IF k = i THEN i + 1 ELSE IF k = i + 1 THEN i ELSE k] :
        i \in 1..(n - 1)}

Permuted(recs, p) == [i \in 1..Len(recs) |-> recs[p[i]]]

\* C21: the set of TrendRecords the aggregator produces is the same for every
\* permutation of the input records: it stays the same when two neighbouring
\* records of any input list change places; when it raises, it raises for the
\* exchanged list too.
C21_OrderIndependent ==
    \A p \in Orders(Len(indicator_records)) :
        LET other == Permuted(indicator_records, p)
        IN  /\ pivot_pc = "returned" =>
                   /\ ~PivotRaises(other)
                   /\ Range(AllTrends(other)) = Range(all_trends)
            /\ pivot_pc = "raised" => PivotRaises(other)

\* two records of one company and one year carry different sales; the
\* aggregator returned, and for the swapped list too
C21_Witness ==
    /\ pivot_pc = "returned"
    /\ Len(indicator_records) = 2
    /\ indicator_records[1].company = indicator_records[2].company
    /\ Year(indicator_records[1].document_date)
           = Year(indicator_records[2].document_date)
    /\ "NetSales" \in DOMAIN indicator_records[1].raw
    /\ "NetSales" \in DOMAIN indicator_records[2].raw
    /\ indicator_records[1].raw["NetSales"] < indicator_records[2].raw["NetSales"]
    /\ Len(all_trends) = 1
    /\ all_trends[1].millions["NetSales"].yen = indicator_records[2].raw["NetSales"]

(***************************************************************************)
(* Indicator stage: process_securities_reports_async and process_document. *)
(***************************************************************************)
\* how the download, the extraction of the archive and the scan of one
\* filing can end:
\*   http_error  session.get / raise_for_status raises (visualizer 93-95)
\*   bad_zip     the archive is saved and extract_zip raises (104-114)
\*   no_xbrl     the archive holds no .xbrl file (124-127)
\*   unreadable  the scan of the file raises (analyzer, open)
\*   identity    the scan finds none of the indicators
\*   sales       the scan finds the revenue only
\*   full        the scan finds the four indicators of the aggregator
DocumentOutcomes ==
    {"http_error", "bad_zip", "no_xbrl", "unreadable", "identity", "sales",
     "full"}

DownloadFailures == {"http_error", "bad_zip", "no_xbrl", "unreadable"}

\* the _raw keys of the dict a scan returns
RawOf(kind) ==
    CASE kind = "full"  -> [column \in PivotValues |-> 300]
      [] kind = "sales" -> [column \in {"NetSales"} |-> 100]
      [] OTHER          -> <<>>

\* processor.py lines 96-103: the dict with the identity of the row
RecordOf(row, kind) ==
    [company |-> row.filerName,
     docID |-> row.docID,
     document_date |-> <<2023, 6>>,
     raw |-> RawOf(kind)]

\* processor.py lines 69-115: what process_document returns, or that the
\* exception of download_xbrl leaves it
DocumentResult(row, kind) ==
    CASE kind \in {"http_error", "bad_zip"} -> [raised |-> TRUE, val |-> <<>>]
      [] kind \in {"no_xbrl", "unreadable"} -> [raised |-> FALSE, val |-> <<>>]
      [] OTHER -> [raised |-> FALSE, val |-> <<RecordOf(row, kind)>>]

\* a directory named by the company alone
CompanyOnlyDir(row) == <<row.filerName>>

\* processor.py line 68: os.path.join(DOWNLOAD_DIR, company, doc_id)
CompanyDir(row) == <<row.filerName, row.docID>>

\* a semaphore with the tokens of the listing crawler
CrawlerSemaphore == [value |-> MAX_CONCURRENT_REQUESTS, waiters |-> <<>>]

\* processor.py line 151
DownloadSemaphore ==
    [value |-> XBRL_DOWNLOADER_MAX_CONCURRENT, waiters |-> <<>>]

\* lines 173-177: exceptions are logged, lists are joined in task order
Collected(table, kinds) ==
    Flatten([i \in 1..Len(table) |-> DocumentResult(table[i], kinds[i]).val])

\* lines 136-151: the table read (filings with distinct identifiers), the
\* semaphore created
DownloadInit ==
    /\ \E n \in 1..MaxDownloads : \E names \in [1..n -> CompanyNames] :
           report_table = [i \in 1..n |-> [docID |-> i, filerName |-> names[i]]]
    /\ download_pc = "spawn"
    /\ started = 0
    /\ download_semaphore = DownloadSemaphore
    /\ doc_phase = [i \in 1..MaxDownloads |-> "none"]
    /\ doc_outcome = [i \in 1..MaxDownloads |-> "none"]
    /\ save_dir = [i \in 1..MaxDownloads |-> <<>>]
    /\ all_financial_data = <<>>
    /\ indicators_csv = FALSE

\* lines 158-170 and 64-69: gather schedules the coroutines in row order;
\* the first step of each enters the semaphore and starts the download under
\* its directory, or queues behind the semaphore
StartDocument ==
    /\ download_pc = "spawn"
    /\ started < Len(report_table)
    /\ LET i == started + 1
       IN  IF CanAcquire(download_semaphore)
           THEN /\ download_semaphore' =
                      [download_semaphore EXCEPT !.value = @ - 1]
                /\ doc_phase' = [doc_phase EXCEPT ![i] = "inside"]
                /\ save_dir' = [save_dir EXCEPT ![i] = CompanyDir(report_table[i])]
           ELSE /\ download_semaphore' =
                      [download_semaphore EXCEPT !.waiters = Append(@, i)]
                /\ doc_phase' = [doc_phase EXCEPT ![i] = "waiting"]
                /\ UNCHANGED save_dir
    /\ started' = started + 1
    /\ UNCHANGED <<report_table, download_pc, doc_outcome, all_financial_data,
                   indicators_csv>>
    /\ UNCHANGED <<crawlvars, matchvars, resolvevars, finalvars, extractvars,
                   pivotvars, runvars>>

\* line 170: every coroutine is scheduled, the caller awaits the gather
AwaitDocuments ==
    /\ download_pc = "spawn"
    /\ started = Len(report_table)
    /\ download_pc' = "gather"
    /\ UNCHANGED <<report_table, started, download_semaphore, doc_phase,
                   doc_outcome, save_dir, all_financial_data, indicators_csv>>
    /\ UNCHANGED <<crawlvars, matchvars, resolvevars, finalvars, extractvars,
                   pivotvars, runvars>>

\* lines 64-69: a task woken by a release resumes and starts its download
ResumeDocument(i) ==
    /\ doc_phase[i] = "admitted"
    /\ doc_phase' = [doc_phase EXCEPT ![i] = "inside"]
    /\ save_dir' = [save_dir EXCEPT ![i] = CompanyDir(report_table[i])]
    /\ UNCHANGED <<report_table, download_pc, started, download_semaphore,
                   doc_outcome, all_financial_data, indicators_csv>>
    /\ UNCHANGED <<crawlvars, matchvars, resolvevars, finalvars, extractvars,
                   pivotvars, runvars>>

\* lines 69-115: the work on row i ends with `kind`; the coroutine returns or
\* raises and leaves the `async with`, releasing its token
FinishDocument(i, kind) ==
    /\ download_pc = "gather"
    /\ doc_phase[i] = "inside"
    /\ LET r == DocumentResult(report_table[i], kind)
           released == Release(download_semaphore)
           w == Woken(download_semaphore, released)
       IN  /\ doc_outcome' = [doc_outcome EXCEPT ![i] = kind]
           /\ download_semaphore' = released
           /\ doc_phase' = [j \in 1..MaxDownloads |->
                              IF j = i
                              THEN (IF r.raised THEN "raised" ELSE "returned")
                              ELSE IF j = w THEN "admitted"
                              ELSE doc_phase[j]]
    /\ save_dir' = [save_dir EXCEPT ![i] = <<>>]
    /\ UNCHANGED <<report_table, download_pc, started, all_financial_data,
                   indicators_csv>>
    /\ UNCHANGED <<crawlvars, matchvars, resolvevars, finalvars, extractvars,
                   pivotvars, runvars>>

\* lines 170-208: gather(return_exceptions=True) delivers results and
\* exceptions in task order; the records are joined, saved, and handed to
\* create_pivot_tables_async, whose KeyError is not caught (line 188)
GatherDocuments ==
    /\ download_pc = "gather"
    /\ \A i \in 1..Len(report_table) : doc_phase[i] \in {"returned", "raised"}
    /\ LET data == Collected(report_table, doc_outcome)
       IN  /\ all_financial_data' = data
           /\ indicators_csv' = (data # <<>>)
           /\ download_pc' =
                  IF data # <<>> /\ PivotRaises(data)
                  THEN "raised" ELSE "returned"
    /\ UNCHANGED <<report_table, started, download_semaphore, doc_phase,
                   doc_outcome, save_dir>>
    /\ UNCHANGED <<crawlvars, matchvars, resolvevars, finalvars, extractvars,
                   pivotvars, runvars>>

DownloadNext ==
    \/ StartDocument
    \/ AwaitDocuments
    \/ \E i \in 1..MaxDownloads : ResumeDocument(i)
    \/ \E i \in 1..MaxDownloads : \E kind \in DocumentOutcomes :
           FinishDocument(i, kind)
    \/ GatherDocuments

InitDownload ==
    /\ DownloadInit
    /\ CrawlIdle /\ MatchIdle /\ ResolveIdle
    /\ FinalIdle /\ ExtractIdle /\ PivotIdle /\ RunIdle

SpecDownload == InitDownload /\ [][DownloadNext]_vars

(***************************************************************************)
(* Claims about the indicator stage.                                       *)
(***************************************************************************)
\* the rows whose task holds a token: inside the section, or woken with the
\* token handed over
Holding == {i \in 1..MaxDownloads : doc_phase[i] \in {"admitted", "inside"}}

\* the rows whose task is inside the section of process_document
Inside == {i \in 1..MaxDownloads : doc_phase[i] = "inside"}

\* C22: under every interleaving at most the configured download limit of
\* filings is inside the download-and-extract section; the tokens are those
\* of the stage's own semaphore, whose count is the limit minus the tokens
\* held, and the listing crawler's semaphore is not touched.
C22_DownloadLimit ==
    /\ Cardinality(Holding) <= XBRL_DOWNLOADER_MAX_CONCURRENT
    /\ download_semaphore.value
           = XBRL_DOWNLOADER_MAX_CONCURRENT - Cardinality(Holding)
    /\ download_semaphore.waiters # <<>> => download_semaphore.value = 0
    /\ semaphore = [value |-> 0, waiters |-> <<>>]

\* the limit binds: three filings are inside, one has left the section with
\* an exception and the filing that queued behind it was let in
C22_Witness ==
    /\ Cardinality(Inside) = XBRL_DOWNLOADER_MAX_CONCURRENT
    /\ Len(report_table) > XBRL_DOWNLOADER_MAX_CONCURRENT
    /\ \E i \in 1..Len(report_table) : doc_phase[i] = "raised"
    /\ doc_phase[Len(report_table)] = "inside"

\* C23: no two filing tasks in flight at the same time write under the same
\* directory, and the directory of a task is determined by its filing.
C23_DistinctWriteDirs ==
    /\ \A i, j \in Inside : i # j => save_dir[i] # save_dir[j]
    /\ \A i \in 1..MaxDownloads :
           /\ i \in Inside <=> save_dir[i] # <<>>
           /\ i \in Inside =>
                  save_dir[i] = <<report_table[i].filerName,
                                  report_table[i].docID>>

\* two filings of one company are inside the section at the same time
C23_Witness ==
    \E i, j \in Inside :
        /\ i # j
        /\ report_table[i].filerName = report_table[j].filerName
        /\ save_dir[i] # save_dir[j]

\* the rows whose download, extraction or scan failed
Failed == {i \in 1..Len(report_table) : doc_outcome[i] \in DownloadFailures}

\* the outcomes of the batch had the failed rows been scanned as `alt` says
HadSucceeded(alt) ==
    [i \in 1..MaxDownloads |-> IF i \in Failed THEN alt[i] ELSE doc_outcome[i]]

\* C24: when the work on a filing fails, the filing contributes no record,
\* its token is back, the records of every other filing are still produced,
\* and process_securities_reports_async does not raise because of the
\* failure: if it raises, it would have raised whatever the failed filings
\* had held.
C24_FailureIsolated ==
    download_pc \in {"returned", "raised"} =>
        /\ download_semaphore = DownloadSemaphore
        /\ \A i \in Failed : \A k \in 1..Len(all_financial_data) :
               all_financial_data[k].docID # report_table[i].docID
        /\ \A i \in (1..Len(report_table)) \ Failed :
               \E k \in 1..Len(all_financial_data) :
                   all_financial_data[k] = RecordOf(report_table[i], doc_outcome[i])
        /\ download_pc = "raised" =>
               \A alt \in [Failed -> DocumentOutcomes \ DownloadFailures] :
                   PivotRaises(Collected(report_table, HadSucceeded(alt)))

(***************************************************************************)
(* The run: main.search_documents (document_processor.main) followed by    *)
(* main.extract_financial_data (xbrl.processor.main).  The per-year crawl  *)
(* is reduced to its listing requests.                                     *)
(***************************************************************************)
\* what COMPANY_INFO_JSON can hold when the filing stage reads it
RegistryStates == {"absent", "invalid_json", "not_a_list", "empty_list", "ok"}

\* the tables of the filing stage, by the name of their setting
ALL_DOCUMENTS_CSV == "all_documents"
FILTERED_DOCUMENTS_CSV == "filtered_documents"
SECURITIES_REPORTS_CSV == "securities_reports"
FILTERED_SECURITIES_REPORTS_CSV == "filtered_securities_reports"
FINAL_SECURITIES_REPORTS_CSV == "final_securities_reports"

\* edinet_core.load_json_file: None when the file is missing or is not JSON
LoadJsonFile(file) ==
    CASE file \in {"absent", "invalid_json"} -> "None"
      [] file = "not_a_list" -> "dict"
      [] file = "empty_list" -> "[]"
      [] OTHER -> "list"

\* a loader that takes whatever JSON value the file holds
LoadCompaniesUnchecked(file) ==
    IF LoadJsonFile(file) \in {"None", "[]"} THEN "[]" ELSE "list"

\* document_processor.load_companies lines 35-46 (a non-list value is
\* modelled as a non-empty dict: an empty one is caught by line 37)
load_companies(file) ==
    IF LoadJsonFile(file) \in {"None", "[]"} THEN "[]"
    ELSE IF LoadJsonFile(file) # "list" THEN "[]"
    ELSE "list"

\* a batch that is taken for finished at once
YearCompleteAlways(j) == TRUE

\* line 513: process_year_documents returns when gather has every result
YearComplete(j) == year_answered[j] = MaxRequests

\* how the final correction pass of the filing stage can go: its input is
\* read and the table written, its input cannot be read, or lines 322-326
\* raise
FinalPassKinds == {"ok", "unreadable", "raises"}

\* lines 411-465: the tables on disk after process_collected_documents
TablesWritten(kind) ==
    {ALL_DOCUMENTS_CSV, FILTERED_DOCUMENTS_CSV, SECURITIES_REPORTS_CSV}
        \cup (IF kind = "unreadable" THEN {}
              ELSE {FILTERED_SECURITIES_REPORTS_CSV})
        \cup (IF kind = "ok" THEN {FINAL_SECURITIES_REPORTS_CSV} ELSE {})

\* processor.py lines 228-233
candidate_files ==
    <<FILTERED_SECURITIES_REPORTS_CSV, SECURITIES_REPORTS_CSV,
      FILTERED_DOCUMENTS_CSV, ALL_DOCUMENTS_CSV>>

\* processor.py lines 222-242: the table main_async goes on with, "none"
\* when it returns 1
CsvPath(disk) ==
    IF FINAL_SECURITIES_REPORTS_CSV \in disk THEN FINAL_SECURITIES_REPORTS_CSV
    ELSE IF \E k \in 1..Len(candidate_files) : candidate_files[k] \in disk
    THEN candidate_files[CHOOSE k \in 1..Len(candidate_files) :
                            /\ candidate_files[k] \in disk
                            /\ \A m \in 1..(k - 1) : candidate_files[m] \notin disk]
    ELSE "none"

\* how process_securities_reports_async can end: a non-empty list, an empty
\* list (no row, or no filing gave a record), an exception
IndicatorOutcomes == {"records", "no_records", "raises"}

\* processor.py lines 244-266
MainAsyncResult(path, ended) ==
    IF path = "none" THEN "1"
    ELSE IF ended = "records" THEN "0"
    ELSE "1"

\* the state when the stage is entered; the registry file is whatever is on
\* disk, and no table has been written yet
RunInit ==
    /\ entry \in {"main", "document_processor"}
    /\ registry \in RegistryStates
    /\ run_pc = IF entry = "main" THEN "search_documents" ELSE "load_companies"
    /\ \E n \in 1..MaxYears : date_ranges = [k \in 1..n |-> k]
    /\ year_index = 0
    /\ year_issued = [k \in 1..MaxYears |-> 0]
    /\ year_answered = [k \in 1..MaxYears |-> 0]
    /\ any_documents = FALSE
    /\ slept_after = {}
    /\ tables = {}
    /\ final_input = "none"
    /\ filing_result = "none"
    /\ csv_path = "none"
    /\ indicator_result = "none"
    /\ run_result = "running"

\* main.py lines 84-89
search_documents ==
    /\ run_pc = "search_documents"
    /\ IF registry = "absent"
       THEN /\ run_result' = "FileNotFoundError"
            /\ run_pc' = "done"
       ELSE /\ run_pc' = "load_companies"
            /\ UNCHANGED run_result
    /\ UNCHANGED <<entry, registry, date_ranges, year_index, year_issued,
                   year_answered, any_documents, slept_after, tables,
                   final_input, filing_result, csv_path, indicator_result>>
    /\ UNCHANGED <<crawlvars, matchvars, resolvevars, finalvars, extractvars,
                   pivotvars, downloadvars>>

\* document_processor.py lines 493-511: no companies, result 1; otherwise
\* the loop over date_ranges starts
collect_and_process_documents ==
    /\ run_pc = "load_companies"
    /\ IF load_companies(registry) = "[]"
       THEN /\ filing_result' = "1"
            /\ run_pc' = "filing_returned"
            /\ UNCHANGED year_index
       ELSE /\ year_index' = 1
            /\ run_pc' = "crawl"
            /\ UNCHANGED filing_result
    /\ UNCHANGED <<entry, registry, date_ranges, year_issued, year_answered,
                   any_documents, slept_after, tables, final_input, csv_path,
                   indicator_result, run_result>>
    /\ UNCHANGED <<crawlvars, matchvars, resolvevars, finalvars, extractvars,
                   pivotvars, downloadvars>>

\* line 513 (edinet_core.py line 55): a listing request of the batch is sent
IssueRequest ==
    /\ run_pc = "crawl"
    /\ year_issued[year_index] < MaxRequests
    /\ year_issued' = [year_issued EXCEPT ![year_index] = @ + 1]
    /\ UNCHANGED <<entry, registry, run_pc, date_ranges, year_index,
                   year_answered, any_documents, slept_after, tables,
                   final_input, filing_result, csv_path, indicator_result,
                   run_result>>
    /\ UNCHANGED <<crawlvars, matchvars, resolvevars, finalvars, extractvars,
                   pivotvars, downloadvars>>

\* edinet_core.py lines 55-71: a listing request completes, with filings or
\* with the empty list
AnswerRequest(found) ==
    /\ run_pc = "crawl"
    /\ year_answered[year_index] < year_issued[year_index]
    /\ year_answered' = [year_answered EXCEPT ![year_index] = @ + 1]
    /\ any_documents' = (any_documents \/ found)
    /\ UNCHANGED <<entry, registry, run_pc, date_ranges, year_index,
                   year_issued, slept_after, tables, final_input,
                   filing_result, csv_path, indicator_result, run_result>>
    /\ UNCHANGED <<crawlvars, matchvars, resolvevars, finalvars, extractvars,
                   pivotvars, downloadvars>>

\* lines 513-519: the batch returned; sleep unless it was the last
EndYear ==
    /\ run_pc = "crawl"
    /\ YearComplete(year_index)
    /\ run_pc' = IF year_index < Len(date_ranges) THEN "sleep" ELSE "collected"
    /\ UNCHANGED <<entry, registry, date_ranges, year_index, year_issued,
                   year_answered, any_documents, slept_after, tables,
                   final_input, filing_result, csv_path, indicator_result,
                   run_result>>
    /\ UNCHANGED <<crawlvars, matchvars, resolvevars, finalvars, extractvars,
                   pivotvars, downloadvars>>

\* line 519, then the next turn of the loop
Sleep ==
    /\ run_pc = "sleep"
    /\ slept_after' = slept_after \cup {year_index}
    /\ year_index' = year_index + 1
    /\ run_pc' = "crawl"
    /\ UNCHANGED <<entry, registry, date_ranges, year_issued, year_answered,
                   any_documents, tables, final_input, filing_result, csv_path,
                   indicator_result, run_result>>
    /\ UNCHANGED <<crawlvars, matchvars, resolvevars, finalvars, extractvars,
                   pivotvars, downloadvars>>

\* lines 522-526 and 399-480: with documents the tables are written and the
\* result of process_final_reports is dropped; the result is 0 either way
process_collected_documents(kind) ==
    /\ run_pc = "collected"
    /\ IF any_documents
       THEN /\ tables' = TablesWritten(kind)
            /\ final_input' = kind
       ELSE /\ kind = "ok"
            /\ UNCHANGED <<tables, final_input>>
    /\ filing_result' = "0"
    /\ run_pc' = "filing_returned"
    /\ UNCHANGED <<entry, registry, date_ranges, year_index, year_issued,
                   year_answered, any_documents, slept_after, csv_path,
                   indicator_result, run_result>>
    /\ UNCHANGED <<crawlvars, matchvars, resolvevars, finalvars, extractvars,
                   pivotvars, downloadvars>>

\* main.py lines 89-93: a result other than 0 raises RuntimeError; the
\* module run by itself exits with the result
FilingStageReturns ==
    /\ run_pc = "filing_returned"
    /\ IF entry = "document_processor"
       THEN /\ run_result' = "exit"
            /\ run_pc' = "done"
       ELSE IF filing_result # "0"
       THEN /\ run_result' = "RuntimeError"
            /\ run_pc' = "done"
       ELSE /\ run_pc' = "extract_financial_data"
            /\ UNCHANGED run_result
    /\ UNCHANGED <<entry, registry, date_ranges, year_index, year_issued,
                   year_answered, any_documents, slept_after, tables,
                   final_input, filing_result, csv_path, indicator_result>>
    /\ UNCHANGED <<crawlvars, matchvars, resolvevars, finalvars, extractvars,
                   pivotvars, downloadvars>>

\* main.py lines 113-117 and 190-198 with processor.py lines 222-266
extract_financial_data(ended) ==
    /\ run_pc = "extract_financial_data"
    /\ csv_path' = CsvPath(tables)
    /\ CsvPath(tables) = "none" => ended = "no_records"
    /\ indicator_result' = MainAsyncResult(CsvPath(tables), ended)
    /\ run_result' = IF MainAsyncResult(CsvPath(tables), ended) = "0"
                     THEN "0" ELSE "RuntimeError"
    /\ run_pc' = "done"
    /\ UNCHANGED <<entry, registry, date_ranges, year_index, year_issued,
                   year_answered, any_documents, slept_after, tables,
                   final_input, filing_result>>
    /\ UNCHANGED <<crawlvars, matchvars, resolvevars, finalvars, extractvars,
                   pivotvars, downloadvars>>

RunNext ==
    \/ search_documents
    \/ collect_and_process_documents
    \/ IssueRequest
    \/ \E found \in BOOLEAN : AnswerRequest(found)
    \/ EndYear
    \/ Sleep
    \/ \E kind \in FinalPassKinds : process_collected_documents(kind)
    \/ FilingStageReturns
    \/ \E ended \in IndicatorOutcomes : extract_financial_data(ended)

InitRun ==
    /\ RunInit
    /\ CrawlIdle /\ MatchIdle /\ ResolveIdle
    /\ FinalIdle /\ ExtractIdle /\ PivotIdle /\ DownloadIdle

SpecRun == InitRun /\ [][RunNext]_vars

(***************************************************************************)
(* Claims about the run.                                                   *)
(***************************************************************************)
\* the run, or the stage run by itself, ended in failure
RunFailed ==
    \/ run_result \in {"FileNotFoundError", "RuntimeError"}
    \/ run_result = "exit" /\ filing_result # "0"

\* a mandatory input is missing: the registry is absent or unusable, or the
\* indicator stage found none of the tables it can read
MandatoryInputMissing ==
    \/ registry # "ok"
    \/ indicator_result # "none" /\ tables = {}

\* C25: a run ends in failure only if a mandatory input file is missing; a
\* run whose requests all fail, or in which no indicator is extracted, ends
\* successfully.
C25_FailureOnlyOnMissingInput ==
    run_pc = "done" => (RunFailed => MandatoryInputMissing)

\* C26: when the canonical input of a stage is missing the run fails: the
\* indicator stage does not go on without the correction-resolved table, and
\* the filing stage does not report success when the input of its final
\* correction pass could not be read.
C26_MissingCanonicalInputFails ==
    /\ (indicator_result # "none" /\ FINAL_SECURITIES_REPORTS_CSV \notin tables)
           => (csv_path = "none" /\ indicator_result = "1")
    /\ (filing_result # "none" /\ final_input = "unreadable")
           => filing_result # "0"

\* C27: with the registry file absent, not JSON, not a list or empty, the
\* filing stage ends with a failure before any listing request is sent and
\* before any table is written, and the run is aborted.
C27_BadRegistryAborts ==
    registry # "ok" =>
        /\ \A k \in 1..MaxYears : year_issued[k] = 0
        /\ tables = {}
        /\ run_pc \in {"search_documents", "load_companies",
                        "filing_returned", "done"}
        /\ filing_result \in {"none", "1"}
        /\ run_pc = "done" =>
               /\ csv_path = "none"
               /\ indicator_result = "none"
               /\ IF entry = "main"
                  THEN run_result \in {"FileNotFoundError", "RuntimeError"}
                  ELSE filing_result = "1" /\ run_result = "exit"

\* a registry file that holds JSON but no list: the stage returned 1 and
\* main raised
C27_Witness ==
    /\ run_pc = "done"
    /\ entry = "main"
    /\ registry = "not_a_list"
    /\ filing_result = "1"
    /\ run_result = "RuntimeError"

\* C28: no listing request of a batch is sent before every request of the
\* batch before it has completed, the pipeline sleeps between two
\* consecutive batches, and it does not sleep after the last one.
C28_BatchesInSequence ==
    /\ \A k \in 1..(MaxYears - 1) :
           year_issued[k + 1] > 0 =>
               /\ year_issued[k] = MaxRequests
               /\ year_answered[k] = MaxRequests
               /\ k \in slept_after
    /\ \A k \in slept_after : k < Len(date_ranges)
    /\ run_pc \in {"collected", "filing_returned", "extract_financial_data",
                    "done"} /\ year_index > 0
           => slept_after = 1..(Len(date_ranges) - 1)

\* two batches were crawled, with one sleep between them and none after
C28_Witness ==
    /\ run_pc = "collected"
    /\ Len(date_ranges) = 2
    /\ year_answered[1] = MaxRequests
    /\ year_answered[2] = MaxRequests
    /\ slept_after = {1}

====
